---------------------------- MODULE Spec2Model ----------------------------
(***************************************************************************)
(* Worktree lifecycle manager of worktree-cli: clone, createBranch,        *)
(* listWorktrees, removeWorktree, the repository configuration store and   *)
(* the text parsers of the command line front ends.                        *)
(*                                                                         *)
(* Text is modelled as a sequence of one-character strings, so that the    *)
(* substring tests, regular expressions, splits and sorts of the source    *)
(* are computed on characters as the source computes them.                 *)
(***************************************************************************)
EXTENDS Integers, Sequences, FiniteSets, TLC

VARIABLES
  disk,           \* the workspace on disk: directories, config file, bare storage refs
  remote,         \* the remote repository: its branches and its HEAD
  defaultBranch,  \* WorktreeManager.defaultBranch of the live manager instance
  last,           \* the most recent manager call: arguments, commands issued, outcome
  input,          \* input of the text parser under test
  output,         \* result of the text parser under test
  wizard          \* the interactive wizard: where its control is and what it printed

vars == <<disk, remote, defaultBranch, last, input, output, wizard>>

(***************************************************************************)
(* Bounds                                                                  *)
(***************************************************************************)
MaxSegments == 3
MaxRecords == 3
MaxLines == 3
MaxMembers == 2
MaxIterations == 2

(***************************************************************************)
(* Text constants                                                          *)
(***************************************************************************)
BaseDir == <<"/", "r">>
RepositoryName == <<"p">>
BareDirName == <<".", "b", "a", "r", "e">>
T_main == <<"m", "a", "i", "n">>
T_master == <<"m", "a", "s", "t", "e", "r">>
T_develop == <<"d", "e", "v", "e", "l", "o", "p">>
T_feat == <<"f", "e", "a", "t">>
T_fix == <<"f", "i", "x">>
T_mainline == <<"m", "a", "i", "n", "l", "i", "n", "e">>
T_fixX == <<"f", "i", "x", "/", "x">>
Url1 ==
    <<"h", "t", "t", "p", "s", ":", "/", "/", "e", "x", "a", "m", "p", "l", "e", ".", "c", "o",
      "m", "/", "g", "/", "p", ".", "g", "i", "t">>
Url2 ==
    <<"g", "i", "t", "@", "e", "x", "a", "m", "p", "l", "e", ".", "c", "o", "m", ":", "g", "/",
      "p">>
T_Error == <<"E", "r", "r", "o", "r", ":", " ">>
T_FailedToClone ==
    <<"F", "a", "i", "l", "e", "d", " ", "t", "o", " ", "c", "l", "o", "n", "e", " ", "r", "e",
      "p", "o", "s", "i", "t", "o", "r", "y", ":", " ">>
T_RepositoryDirectoryExists ==
    <<"R", "e", "p", "o", "s", "i", "t", "o", "r", "y", " ", "d", "i", "r", "e", "c", "t", "o",
      "r", "y", " ", "a", "l", "r", "e", "a", "d", "y", " ", "e", "x", "i", "s", "t", "s", ":",
      " ">>
T_RepositoryNotFoundCloneFirst ==
    <<"R", "e", "p", "o", "s", "i", "t", "o", "r", "y", " ", "n", "o", "t", " ", "f", "o", "u",
      "n", "d", ".", " ", "P", "l", "e", "a", "s", "e", " ", "c", "l", "o", "n", "e", " ", "f",
      "i", "r", "s", "t", ".">>
T_RepositoryNotFound ==
    <<"R", "e", "p", "o", "s", "i", "t", "o", "r", "y", " ", "n", "o", "t", " ", "f", "o", "u",
      "n", "d", ".">>
T_WorktreeForBranch ==
    <<"W", "o", "r", "k", "t", "r", "e", "e", " ", "f", "o", "r", " ", "b", "r", "a", "n", "c",
      "h", " ">>
T_AlreadyExists == <<" ", "a", "l", "r", "e", "a", "d", "y", " ", "e", "x", "i", "s", "t", "s">>
T_FailedToCreateBranch ==
    <<"F", "a", "i", "l", "e", "d", " ", "t", "o", " ", "c", "r", "e", "a", "t", "e", " ", "b",
      "r", "a", "n", "c", "h", ":", " ">>
T_FailedToRemoveWorktree ==
    <<"F", "a", "i", "l", "e", "d", " ", "t", "o", " ", "r", "e", "m", "o", "v", "e", " ", "w",
      "o", "r", "k", "t", "r", "e", "e", ":", " ">>
T_ContainsModified ==
    <<"c", "o", "n", "t", "a", "i", "n", "s", " ", "m", "o", "d", "i", "f", "i", "e", "d", " ",
      "o", "r", " ", "u", "n", "t", "r", "a", "c", "k", "e", "d", " ", "f", "i", "l", "e", "s">>
T_WorktreeContainsModified ==
    <<"W", "o", "r", "k", "t", "r", "e", "e", " ", "c", "o", "n", "t", "a", "i", "n", "s", " ",
      "m", "o", "d", "i", "f", "i", "e", "d", " ", "o", "r", " ", "u", "n", "t", "r", "a", "c",
      "k", "e", "d", " ", "f", "i", "l", "e", "s", ".", " ", "U", "s", "e", " ", "'", "n", "p",
      "m", " ", "r", "u", "n", " ", "r", "e", "m", "o", "v", "e", ":", "f", "o", "r", "c", "e",
      " ">>
T_ToForceRemoval ==
    <<"'", " ", "t", "o", " ", "f", "o", "r", "c", "e", " ", "r", "e", "m", "o", "v", "a", "l",
      ".">>
T_CommandFailed ==
    <<"C", "o", "m", "m", "a", "n", "d", " ", "f", "a", "i", "l", "e", "d", ":", " ">>
T_Fatal == <<"f", "a", "t", "a", "l", ":", " ", "'">>
T_DirtyTail ==
    <<"'", " ", "c", "o", "n", "t", "a", "i", "n", "s", " ", "m", "o", "d", "i", "f", "i", "e",
      "d", " ", "o", "r", " ", "u", "n", "t", "r", "a", "c", "k", "e", "d", " ", "f", "i", "l",
      "e", "s", ",", " ", "u", "s", "e", " ", "-", "-", "f", "o", "r", "c", "e", " ", "t", "o",
      " ", "d", "e", "l", "e", "t", "e", " ", "i", "t", "\n">>
T_NotWorkingTree ==
    <<"'", " ", "i", "s", " ", "n", "o", "t", " ", "a", " ", "w", "o", "r", "k", "i", "n", "g",
      " ", "t", "r", "e", "e", "\n">>
T_InvalidReference ==
    <<"f", "a", "t", "a", "l", ":", " ", "i", "n", "v", "a", "l", "i", "d", " ", "r", "e", "f",
      "e", "r", "e", "n", "c", "e", ":", " ">>
T_NotValidRef ==
    <<"e", "r", "r", "o", "r", ":", " ", "N", "o", "t", " ", "a", " ", "v", "a", "l", "i", "d",
      " ", "r", "e", "f", ":", " ", "r", "e", "f", "s", "/", "r", "e", "m", "o", "t", "e", "s",
      "/", "o", "r", "i", "g", "i", "n", "/">>
T_CouldNotRead ==
    <<"f", "a", "t", "a", "l", ":", " ", "C", "o", "u", "l", "d", " ", "n", "o", "t", " ", "r",
      "e", "a", "d", " ", "f", "r", "o", "m", " ", "r", "e", "m", "o", "t", "e", " ", "r", "e",
      "p", "o", "s", "i", "t", "o", "r", "y", ".", "\n">>
T_CouldNotFindRemoteRef ==
    <<"f", "a", "t", "a", "l", ":", " ", "c", "o", "u", "l", "d", "n", "'", "t", " ", "f", "i",
      "n", "d", " ", "r", "e", "m", "o", "t", "e", " ", "r", "e", "f", " ">>
T_BranchExists ==
    <<"f", "a", "t", "a", "l", ":", " ", "a", " ", "b", "r", "a", "n", "c", "h", " ", "n", "a",
      "m", "e", "d", " ", "'">>
T_BranchExistsTail ==
    <<"'", " ", "a", "l", "r", "e", "a", "d", "y", " ", "e", "x", "i", "s", "t", "s", "\n">>
T_NotGitRepository ==
    <<"f", "a", "t", "a", "l", ":", " ", "n", "o", "t", " ", "a", " ", "g", "i", "t", " ", "r",
      "e", "p", "o", "s", "i", "t", "o", "r", "y", "\n">>
T_ENOSPC ==
    <<"E", "r", "r", "o", "r", ":", " ", "E", "N", "O", "S", "P", "C", ":", " ", "n", "o", " ",
      "s", "p", "a", "c", "e", " ", "l", "e", "f", "t", " ", "o", "n", " ", "d", "e", "v", "i",
      "c", "e", ",", " ", "o", "p", "e", "n", " ", "'">>
T_OriginSlash == <<"o", "r", "i", "g", "i", "n", "/">>
T_OriginMain == <<"o", "r", "i", "g", "i", "n", "/", "m", "a", "i", "n">>
T_OriginMaster == <<"o", "r", "i", "g", "i", "n", "/", "m", "a", "s", "t", "e", "r">>
T_WorktreeSp == <<"w", "o", "r", "k", "t", "r", "e", "e", " ">>
T_BranchRefsHeads ==
    <<"b", "r", "a", "n", "c", "h", " ", "r", "e", "f", "s", "/", "h", "e", "a", "d", "s", "/">>
T_detached == <<"d", "e", "t", "a", "c", "h", "e", "d">>
T_HEADSp == <<"H", "E", "A", "D", " ">>
T_bare == <<"b", "a", "r", "e">>
T_locked == <<"l", "o", "c", "k", "e", "d">>
T_RefsHeads == <<"r", "e", "f", "s", "/", "h", "e", "a", "d", "s", "/">>
T_DotGit == <<".", "g", "i", "t">>
T_InvalidRepositoryUrl ==
    <<"I", "n", "v", "a", "l", "i", "d", " ", "r", "e", "p", "o", "s", "i", "t", "o", "r", "y",
      " ", "U", "R", "L">>
K_defaultBranch == <<"d", "e", "f", "a", "u", "l", "t", "B", "r", "a", "n", "c", "h">>
K_repositoryUrl == <<"r", "e", "p", "o", "s", "i", "t", "o", "r", "y", "U", "r", "l">>
ConfigFileName == <<".", "w", "o", "r", "k", "t", "r", "e", "e", ".", "j", "s", "o", "n">>
T_Sha == <<"8", "e", "7", "c", "9", "9", "7">>
T_FailedToListWorktrees ==
    <<"F", "a", "i", "l", "e", "d", " ", "t", "o", " ", "l", "i", "s", "t", " ", "w", "o", "r",
      "k", "t", "r", "e", "e", "s", ":", " ">>
T_FailedToListRemoteBranches ==
    <<"F", "a", "i", "l", "e", "d", " ", "t", "o", " ", "l", "i", "s", "t", " ", "r", "e", "m",
      "o", "t", "e", " ", "b", "r", "a", "n", "c", "h", "e", "s", ":", " ">>
T_FailedToOpenRemoteBranch ==
    <<"F", "a", "i", "l", "e", "d", " ", "t", "o", " ", "o", "p", "e", "n", " ", "r", "e", "m",
      "o", "t", "e", " ", "b", "r", "a", "n", "c", "h", ":", " ">>
T_RemoteBranch == <<"R", "e", "m", "o", "t", "e", " ", "b", "r", "a", "n", "c", "h", " ", "'">>
T_NotFoundCheckName ==
    <<"'", " ", "n", "o", "t", " ", "f", "o", "u", "n", "d", ".", " ", "P", "l", "e", "a", "s",
      "e", " ", "c", "h", "e", "c", "k", " ", "t", "h", "e", " ", "b", "r", "a", "n", "c", "h",
      " ", "n", "a", "m", "e", ".">>
T_CouldNotCreateDir ==
    <<"f", "a", "t", "a", "l", ":", " ", "c", "o", "u", "l", "d", " ", "n", "o", "t", " ", "c",
      "r", "e", "a", "t", "e", " ", "w", "o", "r", "k", " ", "t", "r", "e", "e", " ", "d", "i",
      "r", " ", "'">>
T_NoSpace ==
    <<"'", ":", " ", "N", "o", " ", "s", "p", "a", "c", "e", " ", "l", "e", "f", "t", " ", "o",
      "n", " ", "d", "e", "v", "i", "c", "e", "\n">>
T_OperationCancelled ==
    <<"O", "p", "e", "r", "a", "t", "i", "o", "n", " ", "c", "a", "n", "c", "e", "l", "l", "e",
      "d">>
T_NoRepositoriesFound ==
    <<"N", "o", " ", "r", "e", "p", "o", "s", "i", "t", "o", "r", "i", "e", "s", " ", "f", "o",
      "u", "n", "d", ".", " ", "P", "l", "e", "a", "s", "e", " ", "c", "l", "o", "n", "e", " ",
      "a", " ", "r", "e", "p", "o", "s", "i", "t", "o", "r", "y", " ", "f", "i", "r", "s", "t",
      ".">>
T_NoWorktreesFoundIn ==
    <<"N", "o", " ", "w", "o", "r", "k", "t", "r", "e", "e", "s", " ", "f", "o", "u", "n", "d",
      " ", "i", "n", " ">>
T_RepositorySp == <<"R", "e", "p", "o", "s", "i", "t", "o", "r", "y", " ">>
T_SpNotFound == <<" ", "n", "o", "t", " ", "f", "o", "u", "n", "d">>

Null == <<"null">>
Undefined == <<"undefined">>
NoError == <<>>

(***************************************************************************)
(* String primitives of the JavaScript runtime used by the source          *)
(***************************************************************************)
Min(S) == CHOOSE i \in S : \A j \in S : i <= j

StartsWith(s, p) == Len(p) <= Len(s) /\ SubSeq(s, 1, Len(p)) = p

EndsWith(s, p) == Len(p) <= Len(s) /\ SubSeq(s, Len(s) - Len(p) + 1, Len(s)) = p

IndexOf(s, p) ==
  LET hits == {i \in 1..(Len(s) - Len(p) + 1) : SubSeq(s, i, i + Len(p) - 1) = p}
  IN IF hits = {} THEN 0 ELSE Min(hits)

Includes(s, p) == IndexOf(s, p) # 0

Replace(s, p, r) ==
  LET i == IndexOf(s, p)
  IN IF i = 0 THEN s
     ELSE SubSeq(s, 1, i - 1) \o r \o SubSeq(s, i + Len(p), Len(s))

Substring(s, n) == SubSeq(s, n + 1, Len(s))

Whitespace == {" ", "\n", "\t", "\r"}

Trim(s) ==
  LET keep == {i \in 1..Len(s) : s[i] \notin Whitespace}
  IN IF keep = {} THEN <<>>
     ELSE SubSeq(s, Min(keep), CHOOSE i \in keep : \A j \in keep : j <= i)

RECURSIVE Split(_, _)
Split(s, sep) ==
  LET i == IndexOf(s, <<sep>>)
  IN IF i = 0 THEN <<s>>
     ELSE <<SubSeq(s, 1, i - 1)>> \o Split(SubSeq(s, i + 1, Len(s)), sep)

RECURSIVE Concat(_)
Concat(ss) == IF ss = <<>> THEN <<>> ELSE Head(ss) \o Concat(Tail(ss))

Truthy(v) == v \notin {Null, Undefined, <<>>}

Or(a, b) == IF Truthy(a) THEN a ELSE b

\* path.join: the joined path normalised, so joining "" or "." gives the directory
PathJoin(dir, name) ==
  IF name = <<>> \/ name = <<".">> THEN dir ELSE dir \o <<"/">> \o name

ErrorToString(message) == T_Error \o message

(***************************************************************************)
(* RepositoryConfigManager (RepositoryConfig.ts)                           *)
(***************************************************************************)
\* JSON.stringify of an object: its members in order; undefined members are dropped
JsonStringify(config) ==
  [wellFormed |-> TRUE,
   members |-> SelectSeq(<< <<K_defaultBranch, config.defaultBranch>>,
                            <<K_repositoryUrl, config.repositoryUrl>> >>,
                         LAMBDA m : m[2] # Undefined)]

\* property read of a parsed JSON object: the last member of that key, else undefined
Member(text, key) ==
  LET hits == {i \in 1..Len(text.members) : text.members[i][1] = key}
  IN IF hits = {} THEN Undefined
     ELSE text.members[CHOOSE i \in hits : \A j \in hits : j <= i][2]

JsonParse(text) ==
  [null |-> FALSE,
   defaultBranch |-> Member(text, K_defaultBranch),
   repositoryUrl |-> Member(text, K_repositoryUrl)]

NullConfig == [null |-> TRUE, defaultBranch |-> Undefined, repositoryUrl |-> Undefined]

AbsentFile == [exists |-> FALSE, text |-> [wellFormed |-> TRUE, members |-> <<>>]]

\* the static fallback persisted instead of the resolved branch
Save_StaticDefault(config) ==
  [exists |-> TRUE, text |-> JsonStringify([config EXCEPT !.defaultBranch = T_main])]

\* save(config): the file content after writeFileSync
Save(config) == [exists |-> TRUE, text |-> JsonStringify(config)]

\* load(): null when the file is absent or JSON.parse throws
Load(file) ==
  IF ~file.exists THEN NullConfig
  ELSE IF ~file.text.wellFormed THEN NullConfig
  ELSE JsonParse(file.text)

\* the stored field returned as it is, without the fallback to null
GetDefaultBranch_NoFallback(file) == Load(file).defaultBranch

\* getDefaultBranch(): config?.defaultBranch || null
GetDefaultBranch(file) ==
  LET config == Load(file)
  IN IF config.null THEN Null ELSE Or(config.defaultBranch, Null)

(***************************************************************************)
(* Paths of the manager (constructor)                                      *)
(***************************************************************************)
repositoryPath == PathJoin(BaseDir, RepositoryName)

barePath == PathJoin(repositoryPath, BareDirName)

BranchNames == {T_main, T_master, T_develop, T_feat}

Urls == {Url1, Url2}

\* the branch names and base branches the callers pass
T_Dot == <<".">>

\* branch names a caller passes: an ordinary one and ".", which path.join
\* resolves to the workspace directory itself
BranchArgs == {T_feat, T_Dot}

BaseArgs == {Undefined, T_main}

\* config.defaultBranch || 'main'
ConstructorDefault(configDefaultBranch) == Or(configDefaultBranch, T_main)

ConstructorArgs == {Undefined, T_develop}

(***************************************************************************)
(* The workspace on disk and the external version-control tool             *)
(***************************************************************************)
NoWorktrees == [n \in {} |-> [branch |-> Null, dirty |-> FALSE]]

EmptyDisk ==
  [baseDir |-> FALSE, repositoryPath |-> FALSE, bare |-> FALSE, config |-> AbsentFile,
   localBranches |-> {}, remoteTracking |-> {}, originHead |-> Null,
   worktrees |-> NoWorktrees]

\* the first component of a relative path
FirstSegment(name) ==
  LET i == IndexOf(name, <<"/">>)
  IN IF i = 0 THEN name ELSE SubSeq(name, 1, i - 1)

\* the directories directly under the workspace directory other than .bare: a
\* worktree of a branch named a/b lies in the directory a
TopDirs(d) == {FirstSegment(n) : n \in DOMAIN d.worktrees}

\* existsSync(path.join(this.repositoryPath, name))
WorktreePathExists(d, name) ==
  IF PathJoin(repositoryPath, name) = repositoryPath THEN d.repositoryPath
  ELSE name \in DOMAIN d.worktrees \cup TopDirs(d)

CheckedOut(d) == {d.worktrees[n].branch : n \in DOMAIN d.worktrees}

Cmd(name, branch, start) ==
  [cmd |-> name, branch |-> branch, start |-> start, force |-> FALSE,
   ok |-> TRUE, out |-> <<>>, stderr |-> <<>>]

Failed(c, stderr) == [c EXCEPT !.ok = FALSE, !.stderr = stderr]

\* the rejection of execAsync: an Error whose message carries the tool's stderr
ExecError(c) == T_CommandFailed \o c.stderr

RECURSIVE SetToSeq(_)
SetToSeq(S) ==
  IF S = {} THEN <<>>
  ELSE LET x == CHOOSE y \in S : TRUE IN <<x>> \o SetToSeq(S \ {x})

\* stdout of `git branch -r`: one indented line per remote-tracking ref
BranchROutput(d) ==
  LET names == SetToSeq(d.remoteTracking)
  IN Concat([i \in 1..Len(names) |-> <<" ", " ">> \o T_OriginSlash \o names[i] \o <<"\n">>])

\* stdout of `git symbolic-ref refs/remotes/origin/HEAD | sed ...`: the pipeline
\* exits with sed's status, so an unset origin/HEAD yields empty output, not a failure
SymbolicRefOutput(d) ==
  IF d.originHead = Null THEN <<>> ELSE d.originHead \o <<"\n">>

\* `git worktree add <path> <branch>`: checks out an existing local branch, or a
\* branch the tool can derive from a remote-tracking ref of the same name
WorktreeAddOk(d, name, branch) ==
  /\ Truthy(branch)
  /\ branch \in d.localBranches \cup d.remoteTracking
  /\ branch \notin CheckedOut(d)
  /\ ~WorktreePathExists(d, name)

\* the creation of a worktree also rewriting the stored config
WorktreeAdded_SavesConfig(d, name, branch) ==
  [d EXCEPT !.worktrees = (name :> [branch |-> branch, dirty |-> FALSE]) @@ @,
            !.localBranches = @ \cup {branch},
            !.config = Save([defaultBranch |-> branch, repositoryUrl |-> Undefined])]

\* a successful `git worktree add`: the directory, and the branch if it is new
WorktreeAdded(d, name, branch) ==
  [d EXCEPT !.worktrees = (name :> [branch |-> branch, dirty |-> FALSE]) @@ @,
            !.localBranches = @ \cup {branch}]

(***************************************************************************)
(* WorktreeManager.clone                                                   *)
(***************************************************************************)
Outcome(d, branch, err, cmds) ==
  [disk |-> d, defaultBranch |-> branch, err |-> err, cmds |-> cmds, ret |-> <<>>]

\* the cause rethrown as it is
CloneCatch_Rethrow(message) == message

\* catch (error) { throw new Error(`Failed to clone repository: ${error}`) }
CloneCatch(message) == T_FailedToClone \o ErrorToString(message)

\* the choices of the environment during one clone
CloneEnv ==
  [cloneOk : BOOLEAN, tracking : BOOLEAN, setHeadOk : BOOLEAN, branchROk : BOOLEAN,
   saveOk : BOOLEAN]

\* the static default taken without looking at the listing
BranchListChoice_Static(branches, static) == static

\* lines 59-65: pick main, then master, then the static default from `git branch -r`
BranchListChoice(branches, static) ==
  IF Includes(branches, T_OriginMain) THEN T_main
  ELSE IF Includes(branches, T_OriginMaster) THEN T_master
  ELSE static

\* lines 48-69: the detected default branch, the commands issued and the disk after
ActualDefaultBranch(d, env) ==
  LET setHeadOk == env.setHeadOk /\ remote.head \in d.remoteTracking
      setHead == Cmd("git remote set-head origin -a", <<>>, <<>>)
  IN IF setHeadOk
     THEN LET d1 == [d EXCEPT !.originHead = remote.head]
              symref == [Cmd("git symbolic-ref refs/remotes/origin/HEAD | sed", <<>>, <<>>)
                          EXCEPT !.out = SymbolicRefOutput(d1)]
          IN [branch |-> Trim(symref.out), disk |-> d1, cmds |-> <<setHead, symref>>]
     ELSE LET setHeadFailed == Failed(setHead, T_NotValidRef \o remote.head \o <<"\n">>)
              branchR == Cmd("git branch -r", <<>>, <<>>)
          IN IF env.branchROk
             THEN LET listed == [branchR EXCEPT !.out = BranchROutput(d)]
                  IN [branch |-> BranchListChoice(listed.out, defaultBranch), disk |-> d,
                      cmds |-> <<setHeadFailed, listed>>]
             ELSE [branch |-> defaultBranch, disk |-> d,
                   cmds |-> <<setHeadFailed, Failed(branchR, T_NotGitRepository)>>]

\* the existence check left out
RepositoryPathExists_Skipped(d) == FALSE

\* existsSync(this.repositoryPath), line 38
RepositoryPathExists(d) == d.repositoryPath

CloneRun(repositoryUrl, env) ==
  LET d0 == [disk EXCEPT !.baseDir = TRUE]
  IN IF RepositoryPathExists(d0)
     THEN Outcome(d0, defaultBranch,
                  CloneCatch(T_RepositoryDirectoryExists \o repositoryPath), <<>>)
     ELSE
     LET d1 == [d0 EXCEPT !.repositoryPath = TRUE]
         bareClone == Cmd("git clone --bare", <<>>, repositoryUrl)
     IN IF ~env.cloneOk
        THEN LET c == Failed(bareClone, T_CouldNotRead)
             IN Outcome(d1, defaultBranch, CloneCatch(ExecError(c)), <<c>>)
        ELSE
        LET d2 == [d1 EXCEPT !.bare = TRUE,
                             !.localBranches = remote.branches,
                             !.remoteTracking = IF env.tracking THEN remote.branches ELSE {}]
            detected == ActualDefaultBranch(d2, env)
            actualDefaultBranch == detected.branch
            d3 == detected.disk
            cmds3 == <<bareClone>> \o detected.cmds
            repoConfig == [defaultBranch |-> actualDefaultBranch,
                           repositoryUrl |-> repositoryUrl]
        IN IF ~env.saveOk
           THEN Outcome(d3, actualDefaultBranch,
                        CloneCatch(T_ENOSPC \o PathJoin(repositoryPath, ConfigFileName)
                                     \o <<"'">>),
                        cmds3)
           ELSE
           LET d4 == [d3 EXCEPT !.config = Save(repoConfig)]
               add == Cmd("git worktree add", actualDefaultBranch, <<>>)
           IN IF WorktreeAddOk(d4, actualDefaultBranch, actualDefaultBranch)
              THEN Outcome(WorktreeAdded(d4, actualDefaultBranch, actualDefaultBranch),
                           actualDefaultBranch, NoError, cmds3 \o <<add>>)
              ELSE LET c == Failed(add, T_InvalidReference \o actualDefaultBranch \o <<"\n">>)
                   IN Outcome(d4, actualDefaultBranch, CloneCatch(ExecError(c)),
                              cmds3 \o <<c>>)

Call(op, branchName, baseBranch, flag, url, r) ==
  [op |-> op, branchName |-> branchName, baseBranch |-> baseBranch, flag |-> flag,
   url |-> url, err |-> r.err, cmds |-> r.cmds, ret |-> r.ret]

NoCall ==
  [op |-> "none", branchName |-> <<>>, baseBranch |-> Undefined, flag |-> FALSE,
   url |-> <<>>, err |-> NoError, cmds |-> <<>>, ret |-> <<>>]

Clone(repositoryUrl) ==
  \E env \in CloneEnv :
    LET r == CloneRun(repositoryUrl, env)
    IN /\ disk' = r.disk
       /\ defaultBranch' = r.defaultBranch
       /\ last' = Call("clone", <<>>, Undefined, FALSE, repositoryUrl, r)
       /\ UNCHANGED <<remote, input, output, wizard>>

(***************************************************************************)
(* WorktreeManager.createBranch                                            *)
(***************************************************************************)
\* catch (error) { throw new Error(`Failed to create branch: ${error}`) }
CreateBranchCatch(message) == T_FailedToCreateBranch \o ErrorToString(message)

\* the in-memory default consulted before the stored one
ResolveBase_StaticFirst(baseBranch, savedDefaultBranch, static) ==
  Or(baseBranch, Or(static, savedDefaultBranch))

\* line 107: baseBranch || savedDefaultBranch || this.defaultBranch
ResolveBase(baseBranch, savedDefaultBranch, static) ==
  Or(baseBranch, Or(savedDefaultBranch, static))

CreateBranchEnv == [fetchOk : BOOLEAN, fetchBaseOk : BOOLEAN]

\* lines 109-117: the optional `git fetch origin`; its failure is only a warning
PullLatest(pullLatest, env) ==
  LET fetch == Cmd("git fetch origin", <<>>, <<>>)
  IN IF ~pullLatest THEN <<>>
     ELSE IF env.fetchOk THEN <<fetch>>
     ELSE <<Failed(fetch, T_CouldNotRead)>>

\* the warning replaced by a rethrow: a failed `git fetch origin` ends the run
PullLatestCatch_Rethrow(cmds1) == cmds1 # <<>> /\ ~cmds1[1].ok

\* lines 113-116: catch (error) { console.warn(...) }; nothing is rethrown
PullLatestCatch(cmds1) == FALSE

\* the new branch rooted at the local branch of the base's name
StartPoint_Local(base) == base

\* line 123: the start point of the new branch, origin/${base}
StartPoint(base) == T_OriginSlash \o base

\* the worktree directory check left out
WorktreeExistsCheck_Skipped(d, branchName) == FALSE

\* the bare storage test left out
BareExists_Skipped(d) == TRUE

\* existsSync(this.barePath), lines 95, 133, 158, 183, 211
BareExists(d) == d.bare

\* existsSync(worktreePath), line 101
WorktreeExistsCheck(d, branchName) == WorktreePathExists(d, branchName)

CreateBranchRun(branchName, baseBranch, pullLatest, env) ==
  IF ~BareExists(disk)
  THEN Outcome(disk, defaultBranch, CreateBranchCatch(T_RepositoryNotFoundCloneFirst), <<>>)
  ELSE IF WorktreeExistsCheck(disk, branchName)
  THEN Outcome(disk, defaultBranch,
               CreateBranchCatch(T_WorktreeForBranch \o branchName \o T_AlreadyExists), <<>>)
  ELSE
  LET savedDefaultBranch == GetDefaultBranch(disk.config)
      base == ResolveBase(baseBranch, savedDefaultBranch, defaultBranch)
      cmds1 == PullLatest(pullLatest, env)
      fetchBase == Cmd("git fetch origin <base>:refs/remotes/origin/<base>", base, <<>>)
  IN IF PullLatestCatch(cmds1)
     THEN Outcome(disk, defaultBranch, CreateBranchCatch(ExecError(cmds1[1])), cmds1)
     ELSE IF ~(env.fetchBaseOk /\ base \in remote.branches)
     THEN LET c == Failed(fetchBase,
                          IF env.fetchBaseOk THEN T_CouldNotFindRemoteRef \o base \o <<"\n">>
                          ELSE T_CouldNotRead)
          IN Outcome(disk, defaultBranch, CreateBranchCatch(ExecError(c)), cmds1 \o <<c>>)
     ELSE
     LET d1 == [disk EXCEPT !.remoteTracking = @ \cup {base}]
         add == Cmd("git worktree add -b", branchName, StartPoint(base))
     IN IF branchName \in d1.localBranches
        THEN LET c == Failed(add, T_BranchExists \o branchName \o T_BranchExistsTail)
             IN Outcome(d1, defaultBranch, CreateBranchCatch(ExecError(c)),
                        cmds1 \o <<fetchBase, c>>)
        ELSE Outcome(WorktreeAdded(d1, branchName, branchName), defaultBranch, NoError,
                     cmds1 \o <<fetchBase, add>>)

CreateBranch(branchName, baseBranch, pullLatest) ==
  \E env \in CreateBranchEnv :
    LET r == CreateBranchRun(branchName, baseBranch, pullLatest, env)
    IN /\ disk' = r.disk
       /\ defaultBranch' = r.defaultBranch
       /\ last' = Call("createBranch", branchName, baseBranch, pullLatest, <<>>, r)
       /\ UNCHANGED <<remote, input, output, wizard>>

(***************************************************************************)
(* WorktreeManager.removeWorktree                                          *)
(***************************************************************************)
\* every failure wrapped generically
RemoveCatch_Generic(branchName, force, message) ==
  T_FailedToRemoveWorktree \o ErrorToString(message)

\* lines 172-178: the dirty-worktree error when the tool's message says so and force
\* was not requested, the generic wrap otherwise
RemoveCatch(branchName, force, message) ==
  IF ~force /\ Includes(message, T_ContainsModified)
  THEN T_WorktreeContainsModified \o RepositoryName \o <<" ">> \o branchName
         \o T_ToForceRemoval
  ELSE T_FailedToRemoveWorktree \o ErrorToString(message)

\* `git worktree remove [--force] <path>`: the stderr of a refusal, <<>> on success
WorktreeRemoveStderr(d, branchName, force) ==
  LET worktreePath == PathJoin(repositoryPath, branchName)
  IN IF branchName \notin DOMAIN d.worktrees
     THEN T_Fatal \o worktreePath \o T_NotWorkingTree
     ELSE IF d.worktrees[branchName].dirty /\ ~force
     THEN T_Fatal \o worktreePath \o T_DirtyTail
     ELSE <<>>

WorktreeRemoved(d, branchName) ==
  [d EXCEPT !.worktrees = [n \in DOMAIN @ \ {branchName} |-> @[n]]]

\* every removal forced
ForceFlag_Always(force) == TRUE

\* line 166: const forceFlag = force ? '--force' : ''
ForceFlag(force) == force

RemoveWorktreeRun(branchName, force) ==
  IF ~BareExists(disk)
  THEN Outcome(disk, defaultBranch, RemoveCatch(branchName, force, T_RepositoryNotFound), <<>>)
  ELSE
  LET remove == [Cmd("git worktree remove", branchName, <<>>) EXCEPT !.force = ForceFlag(force)]
      stderr == WorktreeRemoveStderr(disk, branchName, remove.force)
  IN IF stderr = <<>>
     THEN Outcome(WorktreeRemoved(disk, branchName), defaultBranch, NoError, <<remove>>)
     ELSE LET c == Failed(remove, stderr)
          IN Outcome(disk, defaultBranch, RemoveCatch(branchName, force, ExecError(c)), <<c>>)

RemoveWorktree(branchName, force) ==
  LET r == RemoveWorktreeRun(branchName, force)
  IN /\ disk' = r.disk
     /\ defaultBranch' = r.defaultBranch
     /\ last' = Call("removeWorktree", branchName, Undefined, force, <<>>, r)
     /\ UNCHANGED <<remote, input, output, wizard>>

(***************************************************************************)
(* The manager's constructor and the world outside the manager             *)
(***************************************************************************)
\* a new process builds a new manager: this.defaultBranch = config.defaultBranch || 'main'
Construct(configDefaultBranch) ==
  /\ defaultBranch' = ConstructorDefault(configDefaultBranch)
  /\ last' = NoCall
  /\ UNCHANGED <<disk, remote, input, output, wizard>>

\* the user edits files in a worktree
EditWorktree(name) ==
  /\ name \in DOMAIN disk.worktrees
  /\ ~disk.worktrees[name].dirty
  /\ disk' = [disk EXCEPT !.worktrees[name].dirty = TRUE]
  /\ last' = NoCall
  /\ UNCHANGED <<remote, defaultBranch, input, output, wizard>>

\* the user deletes the workspace directory by hand
DeleteWorkspace ==
  /\ disk.repositoryPath
  /\ disk' = [EmptyDisk EXCEPT !.baseDir = disk.baseDir]
  /\ last' = NoCall
  /\ UNCHANGED <<remote, defaultBranch, input, output, wizard>>

(***************************************************************************)
(* Initial values                                                          *)
(***************************************************************************)
Remotes ==
  {[branches |-> {T_main, T_develop}, head |-> T_develop],
   [branches |-> {T_master, T_feat}, head |-> T_master]}

\* a remote without main or master that has a branch whose name starts with main
NamedAlikeRemote == [branches |-> {T_mainline, T_develop}, head |-> T_develop]

Idle == [done |-> FALSE]

\* the wizard at its main menu, nothing printed yet
WizardStart ==
  [pc |-> "menu", iterations |-> 0, printed |-> "none", calls |-> <<>>, trace |-> <<>>]

(***************************************************************************)
(* parseRepoUrl (cli.ts, wizard.ts)                                        *)
(***************************************************************************)
UrlPrefix ==
    <<"h", "t", "t", "p", "s", ":", "/", "/", "e", "x", "a", "m", "p", "l", "e", ".", "c", "o", "m">>
T_group == <<"g", "r", "o", "u", "p">>
T_project == <<"p", "r", "o", "j", "e", "c", "t">>
T_projectGit == <<"p", "r", "o", "j", "e", "c", "t", ".", "g", "i", "t">>

\* the regular expression /\/([^\/]+?)(\.git)?$/ tried at the slash at position i with
\* the first group ending at j: the group holds no slash and what follows it is the
\* end of the text or ".git" and the end of the text
RepoUrlMatchAt(url, i, j) ==
  /\ url[i] = "/"
  /\ j > i
  /\ \A k \in (i + 1)..j : url[k] # "/"
  /\ \/ j = Len(url)
     \/ SubSeq(url, j + 1, Len(url)) = T_DotGit

\* url.match(...): the leftmost start and, the group being lazy, its shortest extent
RepoUrlMatch(url) ==
  LET starts == {i \in 1..Len(url) : \E j \in (i + 1)..Len(url) : RepoUrlMatchAt(url, i, j)}
  IN IF starts = {} THEN [matched |-> FALSE, group1 |-> <<>>]
     ELSE LET i == Min(starts)
              j == Min({k \in (i + 1)..Len(url) : RepoUrlMatchAt(url, i, k)})
          IN [matched |-> TRUE, group1 |-> SubSeq(url, i + 1, j)]

parseRepoUrl(url) ==
  LET match == RepoUrlMatch(url)
  IN IF ~match.matched
     THEN [done |-> TRUE, ok |-> FALSE, repositoryName |-> <<>>,
           error |-> T_InvalidRepositoryUrl]
     ELSE [done |-> TRUE, ok |-> TRUE, repositoryName |-> match.group1, error |-> NoError]

\* the URLs given on the command line: a host followed by path segments
PathSegments == {<<>>, T_group, T_project, T_projectGit, T_DotGit}

RECURSIVE SeqsUpTo(_, _)
SeqsUpTo(S, n) ==
  IF n = 0 THEN {<<>>}
  ELSE LET shorter == SeqsUpTo(S, n - 1)
       IN shorter \cup {Append(s, x) : s \in shorter, x \in S}

UrlOf(segments) ==
  UrlPrefix \o Concat([i \in 1..Len(segments) |-> <<"/">> \o segments[i]])

FixedLifecycle ==
  /\ disk = EmptyDisk
  /\ remote = [branches |-> {T_main, T_develop}, head |-> T_develop]
  /\ defaultBranch = T_main
  /\ last = NoCall
  /\ wizard = WizardStart

InitUrl ==
  /\ FixedLifecycle
  /\ input \in {[segments |-> s, url |-> UrlOf(s)] : s \in SeqsUpTo(PathSegments, MaxSegments)}
  /\ output = Idle

ParseUrl ==
  /\ ~output.done
  /\ output' = parseRepoUrl(input.url)
  /\ UNCHANGED <<disk, remote, defaultBranch, last, input, wizard>>

NextUrl == ParseUrl

SpecUrl == InitUrl /\ [][NextUrl]_vars

(***************************************************************************)
(* WorktreeManager.listWorktrees: parsing of `git worktree list --porcelain`*)
(***************************************************************************)
P_a == <<"/", "r", "/", "p", "/", "m", "a", "i", "n">>
P_b == <<"/", "r", "/", "p", "/", "f", "e", "a", "t">>

\* the tool's record of one worktree
RecordText(r) ==
  T_WorktreeSp \o r.path \o <<"\n">>
    \o (IF r.kind = "bare" THEN T_bare \o <<"\n">>
        ELSE T_HEADSp \o T_Sha \o <<"\n">>
               \o (IF r.kind = "attached" THEN T_BranchRefsHeads \o r.branch
                   ELSE T_detached) \o <<"\n">>)
    \o (IF r.locked THEN T_locked \o <<"\n">> ELSE <<>>)
    \o <<"\n">>

\* stdout of `git worktree list --porcelain`
Porcelain(records) == Concat([i \in 1..Len(records) |-> RecordText(records[i])])

\* lines[i + 1] read as the branch line
BranchLine_Next(lines, i) == IF i + 1 <= Len(lines) THEN lines[i + 1] ELSE Undefined

\* line 144: lines[i + 2], undefined past the end of the array
BranchLine(lines, i) == IF i + 2 <= Len(lines) THEN lines[i + 2] ELSE Undefined

\* line 145: branchLine ? branchLine.replace('branch refs/heads/', '') : 'detached'
BranchLabel(branchLine) ==
  IF Truthy(branchLine) THEN Replace(branchLine, T_BranchRefsHeads, <<>>) ELSE T_detached

\* lines 138-148
ParseWorktreeList(stdout) ==
  LET lines == Split(stdout, "\n")
      entry(i) == Substring(lines[i], 9) \o <<" ", "(">> \o BranchLabel(BranchLine(lines, i))
                    \o <<")">>
      at == SelectSeq([i \in 1..Len(lines) |-> i], LAMBDA i : StartsWith(lines[i], T_WorktreeSp))
  IN [k \in 1..Len(at) |-> entry(at[k])]

WorktreeRecords ==
  {[path |-> barePath, kind |-> "bare", branch |-> <<>>, locked |-> FALSE],
   [path |-> P_a, kind |-> "attached", branch |-> T_main, locked |-> FALSE],
   [path |-> P_b, kind |-> "attached", branch |-> T_feat, locked |-> FALSE],
   [path |-> P_b, kind |-> "attached", branch |-> T_feat, locked |-> TRUE],
   [path |-> P_a, kind |-> "detached", branch |-> <<>>, locked |-> FALSE],
   [path |-> P_b, kind |-> "detached", branch |-> <<>>, locked |-> FALSE]}

InitWorktrees ==
  /\ FixedLifecycle
  /\ input \in {[records |-> rs, stdout |-> Porcelain(rs)] :
                  rs \in SeqsUpTo(WorktreeRecords, MaxRecords)}
  /\ output = Idle

ParseWorktrees ==
  /\ ~output.done
  /\ output' = [done |-> TRUE, worktrees |-> ParseWorktreeList(input.stdout)]
  /\ UNCHANGED <<disk, remote, defaultBranch, last, input, wizard>>

NextWorktrees == ParseWorktrees

SpecWorktrees == InitWorktrees /\ [][NextWorktrees]_vars

(***************************************************************************)
(* WorktreeManager.listRemoteBranches: parsing of `git ls-remote --heads`  *)
(***************************************************************************)
N_a == <<"a">>
N_ab == <<"a", "b">>
N_b == <<"b">>
N_B == <<"B">>
T_refsTagsV1 ==
    <<"8", "e", "7", "c", "9", "9", "7", "\t", "r", "e", "f", "s", "/", "t", "a", "g", "s", "/", "v", "1">>
T_shaHEAD == <<"8", "e", "7", "c", "9", "9", "7", "\t", "H", "E", "A", "D">>

\* UTF-16 code units of the characters of the branch names
CharCode ==
  ("B" :> 66) @@ ("a" :> 97) @@ ("b" :> 98) @@ ("d" :> 100) @@ ("e" :> 101) @@ ("f" :> 102)
    @@ ("i" :> 105) @@ ("l" :> 108) @@ ("m" :> 109) @@ ("n" :> 110) @@ ("o" :> 111)
    @@ ("p" :> 112) @@ ("r" :> 114) @@ ("s" :> 115) @@ ("t" :> 116) @@ ("v" :> 118)

\* the order of Array.prototype.sort without a comparator: by code units, a proper
\* prefix first
StringLess(s, t) ==
  \E k \in 1..(Len(t)) :
    /\ k <= Len(s) + 1
    /\ SubSeq(s, 1, k - 1) = SubSeq(t, 1, k - 1)
    /\ \/ k = Len(s) + 1
       \/ CharCode[s[k]] < CharCode[t[k]]

RECURSIVE Insert(_, _)
Insert(sorted, x) ==
  IF sorted = <<>> THEN <<x>>
  ELSE IF StringLess(x, Head(sorted)) THEN <<x>> \o sorted
  ELSE <<Head(sorted)>> \o Insert(Tail(sorted), x)

\* the deduplicated list returned as it is
Sort_Unsorted(ss) == ss

\* .sort(): stable, ascending
RECURSIVE Sort(_)
Sort(ss) == IF ss = <<>> THEN <<>> ELSE Insert(Sort(SubSeq(ss, 1, Len(ss) - 1)), ss[Len(ss)])

\* [...new Set(branches)]: the first occurrence of each value, in order
RECURSIVE Dedupe(_)
Dedupe(ss) ==
  IF ss = <<>> THEN <<>>
  ELSE LET rest == Dedupe(SubSeq(ss, 1, Len(ss) - 1))
           x == ss[Len(ss)]
       IN IF \E i \in 1..Len(rest) : rest[i] = x THEN rest ELSE Append(rest, x)

\* line.match(/refs\/heads\/(.+)$/): the text after the leftmost "refs/heads/",
\* null when there is none or nothing follows it
HeadsMatch(line) ==
  LET i == IndexOf(line, T_RefsHeads)
  IN IF i = 0 \/ i + Len(T_RefsHeads) > Len(line) THEN Null
     ELSE SubSeq(line, i + Len(T_RefsHeads), Len(line))

\* lines 193-203
ParseRemoteBranches(stdout) ==
  LET lines == SelectSeq(Split(stdout, "\n"), LAMBDA line : Trim(line) # <<>>)
      matches == [i \in 1..Len(lines) |-> HeadsMatch(lines[i])]
      branches == SelectSeq(matches, LAMBDA branch : branch # Null)
  IN Sort(Dedupe(branches))

\* the lines the remote answers: branch refs and lines that name no branch
RemoteLines ==
  {[head |-> TRUE, name |-> n, text |-> T_Sha \o <<"\t">> \o T_RefsHeads \o n] :
     n \in {N_a, N_ab, N_b, N_B}}
  \cup {[head |-> FALSE, name |-> <<>>, text |-> t] : t \in {<<>>, T_refsTagsV1, T_shaHEAD}}

LsRemoteOutput(lines) == Concat([i \in 1..Len(lines) |-> lines[i].text \o <<"\n">>])

InitRemote ==
  /\ FixedLifecycle
  /\ input \in {[lines |-> ls, stdout |-> LsRemoteOutput(ls)] :
                  ls \in SeqsUpTo(RemoteLines, MaxLines)}
  /\ output = Idle

ParseRemote ==
  /\ ~output.done
  /\ output' = [done |-> TRUE, branches |-> ParseRemoteBranches(input.stdout)]
  /\ UNCHANGED <<disk, remote, defaultBranch, last, input, wizard>>

NextRemote == ParseRemote

SpecRemote == InitRemote /\ [][NextRemote]_vars

(***************************************************************************)
(* WorktreeManager.listWorktrees                                           *)
(***************************************************************************)
\* catch (error) { throw new Error(`Failed to list worktrees: ${error}`) }
ListWorktreesCatch(message) == T_FailedToListWorktrees \o ErrorToString(message)

\* what the tool has registered: the bare storage first, then every worktree
RegisteredWorktrees(d) ==
  LET names == SetToSeq(DOMAIN d.worktrees)
  IN <<[path |-> barePath, kind |-> "bare", branch |-> <<>>, locked |-> FALSE]>>
       \o [i \in 1..Len(names) |->
             [path |-> PathJoin(repositoryPath, names[i]), kind |-> "attached",
              branch |-> d.worktrees[names[i]].branch, locked |-> FALSE]]

ListWorktreesRun ==
  IF ~BareExists(disk)
  THEN Outcome(disk, defaultBranch, ListWorktreesCatch(T_RepositoryNotFoundCloneFirst), <<>>)
  ELSE
  LET list == [Cmd("git worktree list --porcelain", <<>>, <<>>)
                 EXCEPT !.out = Porcelain(RegisteredWorktrees(disk))]
  IN [Outcome(disk, defaultBranch, NoError, <<list>>)
        EXCEPT !.ret = ParseWorktreeList(list.out)]

ListWorktrees ==
  LET r == ListWorktreesRun
  IN /\ disk' = r.disk
     /\ defaultBranch' = r.defaultBranch
     /\ last' = Call("listWorktrees", <<>>, Undefined, FALSE, <<>>, r)
     /\ UNCHANGED <<remote, input, output, wizard>>

(***************************************************************************)
(* WorktreeManager.listRemoteBranches                                      *)
(***************************************************************************)
\* catch (error) { throw new Error(`Failed to list remote branches: ${error}`) }
ListRemoteBranchesCatch(message) == T_FailedToListRemoteBranches \o ErrorToString(message)

ListRemoteEnv == [fetchPruneOk : BOOLEAN, lsRemoteOk : BOOLEAN]

\* the lines `git ls-remote --heads origin` answers for the remote's branches
RemoteHeads(rem) ==
  LET names == Sort(SetToSeq(rem.branches))
  IN [i \in 1..Len(names) |->
        [head |-> TRUE, name |-> names[i],
         text |-> T_Sha \o <<"\t">> \o T_RefsHeads \o names[i]]]

\* lines 181-207, run on the disk d
ListRemoteBranchesFrom(d, env) ==
  IF ~BareExists(d)
  THEN Outcome(d, defaultBranch, ListRemoteBranchesCatch(T_RepositoryNotFoundCloneFirst), <<>>)
  ELSE
  LET fetch == Cmd("git fetch --prune origin +refs/heads/*:refs/remotes/origin/*", <<>>, <<>>)
      lsRemote == Cmd("git ls-remote --heads origin", <<>>, <<>>)
  IN IF ~env.fetchPruneOk
     THEN LET c == Failed(fetch, T_CouldNotRead)
          IN Outcome(d, defaultBranch, ListRemoteBranchesCatch(ExecError(c)), <<c>>)
     ELSE
     LET d1 == [d EXCEPT !.remoteTracking = remote.branches]
     IN IF ~env.lsRemoteOk
        THEN LET c == Failed(lsRemote, T_CouldNotRead)
             IN Outcome(d1, defaultBranch, ListRemoteBranchesCatch(ExecError(c)),
                        <<fetch, c>>)
        ELSE LET ls == [lsRemote EXCEPT !.out = LsRemoteOutput(RemoteHeads(remote))]
             IN [Outcome(d1, defaultBranch, NoError, <<fetch, ls>>)
                   EXCEPT !.ret = ParseRemoteBranches(ls.out)]

ListRemoteBranchesRun(env) == ListRemoteBranchesFrom(disk, env)

ListRemoteBranches ==
  \E env \in ListRemoteEnv :
    LET r == ListRemoteBranchesRun(env)
    IN /\ disk' = r.disk
       /\ defaultBranch' = r.defaultBranch
       /\ last' = Call("listRemoteBranches", <<>>, Undefined, FALSE, <<>>, r)
       /\ UNCHANGED <<remote, input, output, wizard>>

(***************************************************************************)
(* WorktreeManager.openRemoteBranch                                        *)
(***************************************************************************)
\* catch (error) { throw new Error(`Failed to open remote branch: ${error}`) }
OpenRemoteBranchCatch(message) == T_FailedToOpenRemoteBranch \o ErrorToString(message)

\* which of the run's commands the environment lets succeed; a command after the
\* first failing network command is never issued, so its flag is left TRUE
OpenRemoteEnv ==
  {env \in [fetchOk : BOOLEAN, fetchPruneOk : BOOLEAN, lsRemoteOk : BOOLEAN,
            addNewOk : BOOLEAN, addExistingOk : BOOLEAN] :
     /\ ~env.fetchOk => (env.fetchPruneOk /\ env.lsRemoteOk)
     /\ ~env.fetchPruneOk => env.lsRemoteOk
     /\ ~(env.fetchOk /\ env.fetchPruneOk /\ env.lsRemoteOk)
          => (env.addNewOk /\ env.addExistingOk)}

\* the existing-directory test left out
WorktreeAlreadyOpen_Skipped(d, branchName) == FALSE

\* line 218: existsSync(worktreePath)
WorktreeAlreadyOpen(d, branchName) == WorktreePathExists(d, branchName)

\* every name taken as one the remote reports
RemoteBranchesInclude_Always(remoteBranches, branchName) == TRUE

\* line 229: remoteBranches.includes(branchName)
RemoteBranchesInclude(remoteBranches, branchName) ==
  \E i \in 1..Len(remoteBranches) : remoteBranches[i] = branchName

\* stderr of `git worktree add <path> -b <branch> origin/<branch>`, <<>> on success:
\* the branch must be new and the start point must resolve; the checkout itself can
\* fail for reasons outside the repository (here: no space left on the device)
AddNewStderr(d, branchName, env) ==
  IF branchName \in d.localBranches
  THEN T_BranchExists \o branchName \o T_BranchExistsTail
  ELSE IF branchName \notin d.remoteTracking
  THEN T_InvalidReference \o T_OriginSlash \o branchName \o <<"\n">>
  ELSE IF ~env.addNewOk
  THEN T_CouldNotCreateDir \o PathJoin(repositoryPath, branchName) \o T_NoSpace
  ELSE <<>>

\* stderr of `git worktree add <path> <branch>`, <<>> on success
AddExistingStderr(d, branchName, env) ==
  IF ~WorktreeAddOk(d, branchName, branchName)
  THEN T_InvalidReference \o branchName \o <<"\n">>
  ELSE IF ~env.addExistingOk
  THEN T_CouldNotCreateDir \o PathJoin(repositoryPath, branchName) \o T_NoSpace
  ELSE <<>>

\* lines 209-250, run on the disk d
OpenRemoteBranchFrom(d, branchName, env) ==
  IF ~BareExists(d)
  THEN Outcome(d, defaultBranch, OpenRemoteBranchCatch(T_RepositoryNotFoundCloneFirst),
               <<>>)
  ELSE IF WorktreeAlreadyOpen(d, branchName)
  THEN Outcome(d, defaultBranch, NoError, <<>>)
  ELSE
  LET fetch == Cmd("git fetch origin +refs/heads/*:refs/remotes/origin/*", <<>>, <<>>)
  IN IF ~env.fetchOk
     THEN LET c == Failed(fetch, T_CouldNotRead)
          IN Outcome(d, defaultBranch, OpenRemoteBranchCatch(ExecError(c)), <<c>>)
     ELSE
     LET d1 == [d EXCEPT !.remoteTracking = @ \cup remote.branches]
         listed == ListRemoteBranchesFrom(d1, [fetchPruneOk |-> env.fetchPruneOk,
                                               lsRemoteOk |-> env.lsRemoteOk])
         cmds1 == <<fetch>> \o listed.cmds
         d2 == listed.disk
     IN IF listed.err # NoError
        THEN Outcome(d2, defaultBranch, OpenRemoteBranchCatch(listed.err), cmds1)
        ELSE IF ~RemoteBranchesInclude(listed.ret, branchName)
        THEN Outcome(d2, defaultBranch,
                     OpenRemoteBranchCatch(T_RemoteBranch \o branchName
                                             \o T_NotFoundCheckName),
                     cmds1)
        ELSE
        LET addNew == Cmd("git worktree add -b", branchName, T_OriginSlash \o branchName)
            addExisting == Cmd("git worktree add", branchName, <<>>)
            stderr1 == AddNewStderr(d2, branchName, env)
            stderr2 == AddExistingStderr(d2, branchName, env)
        IN IF stderr1 = <<>>
           THEN Outcome(WorktreeAdded(d2, branchName, branchName), defaultBranch, NoError,
                        cmds1 \o <<addNew>>)
           ELSE IF stderr2 = <<>>
           THEN Outcome(WorktreeAdded(d2, branchName, branchName), defaultBranch, NoError,
                        cmds1 \o <<Failed(addNew, stderr1), addExisting>>)
           ELSE LET c == Failed(addExisting, stderr2)
                IN Outcome(d2, defaultBranch, OpenRemoteBranchCatch(ExecError(c)),
                           cmds1 \o <<Failed(addNew, stderr1), c>>)

OpenRemoteBranchRun(branchName, env) == OpenRemoteBranchFrom(disk, branchName, env)

OpenRemoteBranch(branchName) ==
  \E env \in OpenRemoteEnv :
    LET r == OpenRemoteBranchRun(branchName, env)
    IN /\ disk' = r.disk
       /\ defaultBranch' = r.defaultBranch
       /\ last' = Call("openRemoteBranch", branchName, Undefined, FALSE, <<>>, r)
       /\ UNCHANGED <<remote, input, output, wizard>>

\* someone pushes a new branch to the remote after it was cloned
Push(branchName) ==
  /\ disk.bare
  /\ branchName \notin remote.branches
  /\ remote' = [remote EXCEPT !.branches = @ \cup {branchName}]
  /\ last' = NoCall
  /\ UNCHANGED <<disk, defaultBranch, input, output, wizard>>

(***************************************************************************)
(* Lifecycle specification                                                 *)
(***************************************************************************)
Init ==
  /\ disk = EmptyDisk
  /\ remote \in Remotes \cup {NamedAlikeRemote}
  /\ defaultBranch \in {ConstructorDefault(a) : a \in ConstructorArgs}
  /\ last = NoCall
  /\ input = Idle
  /\ output = Idle
  /\ wizard = WizardStart

Next ==
  \/ \E url \in Urls : Clone(url)
  \/ \E b \in BranchArgs, base \in BaseArgs, pull \in BOOLEAN :
       CreateBranch(b, base, pull)
  \/ \E b \in BranchArgs, force \in BOOLEAN : RemoveWorktree(b, force)
  \/ ListWorktrees
  \/ ListRemoteBranches
  \/ \E b \in BranchArgs : OpenRemoteBranch(b)
  \/ Push(T_feat)
  \/ \E a \in ConstructorArgs : Construct(a)
  \/ \E n \in BranchArgs : EditWorktree(n)
  \/ DeleteWorkspace

Spec == Init /\ [][Next]_vars

(***************************************************************************)
(* RepositoryConfigManager on its own: files, save, load, getDefaultBranch *)
(***************************************************************************)
\* the values a config file can hold for a key: names, a url, the empty string
MemberValues == {T_main, T_develop, Url1, <<>>}

ConfigMembers == {<<k, v>> : k \in {K_defaultBranch, K_repositoryUrl}, v \in MemberValues}

\* the files load() can meet: none, a JSON object, text that JSON.parse rejects
ConfigFiles ==
  {AbsentFile}
    \cup {[exists |-> TRUE, text |-> [wellFormed |-> w, members |-> ms]] :
            w \in BOOLEAN, ms \in SeqsUpTo(ConfigMembers, MaxMembers)}

\* the records save() is called with
Configs == [defaultBranch : {T_main, T_develop}, repositoryUrl : Urls]

InitConfig ==
  /\ FixedLifecycle
  /\ input \in [file : ConfigFiles, config : Configs, saved : {FALSE}]
  /\ output = Idle

\* save(config) overwrites the file
SaveConfig ==
  /\ ~output.done
  /\ ~input.saved
  /\ input' = [input EXCEPT !.file = Save(input.config), !.saved = TRUE]
  /\ UNCHANGED <<disk, remote, defaultBranch, last, output, wizard>>

\* load() and getDefaultBranch() on the file as it is
ReadConfig ==
  /\ ~output.done
  /\ output' = [done |-> TRUE, loaded |-> Load(input.file),
                result |-> GetDefaultBranch(input.file)]
  /\ UNCHANGED <<disk, remote, defaultBranch, last, input, wizard>>

NextConfig == SaveConfig \/ ReadConfig

SpecConfig == InitConfig /\ [][NextConfig]_vars

(***************************************************************************)
(* The interactive wizard (wizard.ts, MenuHelper.ts)                        *)
(***************************************************************************)
\* showMenu's value for the choice 0
MenuCancel == <<"CANCEL">>

\* the value of the 'Choose existing branch' option
MenuChoose == <<"CHOOSE">>

OperationKeys == {"clone", "branch", "open", "list", "remove", "help"}

\* what one run of a wizard operation did: the disk it left, the manager calls it
\* made, the error it threw (NoError when it returned), and whether the answers
\* given are ones the menus shown offer
WizardResult(d, calls, error) ==
  [disk |-> d, calls |-> calls, error |-> error, valid |-> TRUE, trace |-> <<>>]

\* the result of a run together with the prompts answered and the removals
\* attempted in it, in the order they happened
Traced(r, trace) == [r EXCEPT !.trace = trace]

Invalid == [WizardResult(disk, <<>>, NoError) EXCEPT !.valid = FALSE]

\* isOperationCancelled: error?.toString().includes('Operation cancelled')
IsOperationCancelled(error) == Includes(ErrorToString(error), T_OperationCancelled)

\* withErrorHandling: false only when the operation threw 'Operation cancelled'
WithErrorHandling(error) == error = NoError \/ ~IsOperationCancelled(error)

\* MenuHelper.selectRepository: the error thrown, NoError when a repository is chosen
SelectRepository(d, answer) ==
  IF ~d.baseDir \/ ~d.repositoryPath THEN T_NoRepositoriesFound
  ELSE IF answer = MenuCancel THEN T_OperationCancelled
  ELSE NoError

\* MenuHelper.selectWorktree: the error thrown, NoError when a worktree is chosen
SelectWorktree(d, answer) ==
  IF ~d.repositoryPath THEN T_RepositorySp \o RepositoryName \o T_SpNotFound
  ELSE IF DOMAIN d.worktrees = {} THEN T_NoWorktreesFoundIn \o RepositoryName
  ELSE IF answer = MenuCancel THEN T_OperationCancelled
  ELSE NoError

\* the answer is an option of the worktree menu
WorktreeOffered(d, answer) == answer \in TopDirs(d) \cup {MenuCancel}

\* the answers to the menu 'Select worktree'
WorktreeAnswers == BranchNames \cup {T_fix, MenuCancel}

\* the answers to the prompt 'Enter repository URL'
WizardUrls == {<<>>, Url1, RepositoryName}

\* cloneRepositoryWizard, lines 81-95
CloneRepositoryWizardRun(url, env) ==
  IF ~Truthy(url) THEN WizardResult(disk, <<>>, NoError)
  ELSE
  LET parsed == parseRepoUrl(url)
  IN IF ~parsed.ok THEN WizardResult(disk, <<>>, parsed.error)
     ELSE IF parsed.repositoryName # RepositoryName THEN Invalid
     ELSE LET r == CloneRun(url, env)
          IN WizardResult(r.disk, <<Call("clone", <<>>, Undefined, FALSE, url, r)>>, r.err)

\* listWorktreesWizard, lines 198-205
ListWorktreesWizardRun(repo) ==
  LET selected == SelectRepository(disk, repo)
  IN IF selected # NoError THEN WizardResult(disk, <<>>, selected)
     ELSE LET r == ListWorktreesRun
          IN WizardResult(r.disk, <<Call("listWorktrees", <<>>, Undefined, FALSE, <<>>, r)>>,
                          r.err)

\* openBranchWizard, lines 249-258: VscodeHelper.promptToOpen never throws
OpenBranchWizardRun(repo, worktree) ==
  LET selected == SelectRepository(disk, repo)
      chosen == SelectWorktree(disk, worktree)
  IN IF selected # NoError THEN WizardResult(disk, <<>>, selected)
     ELSE IF ~WorktreeOffered(disk, worktree) THEN Invalid
     ELSE WizardResult(disk, <<>>, chosen)

IsDirtyError_Any(error) == TRUE

\* removeWorktreeWizard, lines 226-229: the test that leads to the force prompt
IsDirtyError(error) == Includes(ErrorToString(error), T_ContainsModified)

\* removeWorktreeWizard, lines 211-243
RemoveWorktreeWizardRun(repo, worktree, confirmed, forceRemove) ==
  LET selected == SelectRepository(disk, repo)
      chosen == SelectWorktree(disk, worktree)
      r1 == RemoveWorktreeRun(worktree, FALSE)
      call1 == Call("removeWorktree", worktree, Undefined, FALSE, <<>>, r1)
      r2 == RemoveWorktreeRun(worktree, TRUE)
      call2 == Call("removeWorktree", worktree, Undefined, TRUE, <<>>, r2)
  IN IF selected # NoError THEN WizardResult(disk, <<>>, selected)
     ELSE IF ~WorktreeOffered(disk, worktree) THEN Invalid
     ELSE IF chosen # NoError THEN WizardResult(disk, <<>>, chosen)
     ELSE IF ~confirmed
     THEN Traced(WizardResult(disk, <<>>, T_OperationCancelled), <<"sure:no">>)
     ELSE IF r1.err = NoError
     THEN Traced(WizardResult(r1.disk, <<call1>>, NoError), <<"sure:yes", "remove">>)
     ELSE IF IsDirtyError(r1.err)
     THEN IF forceRemove
          THEN Traced(WizardResult(r2.disk, <<call1, call2>>, r2.err),
                      <<"sure:yes", "remove", "force:yes", "remove --force">>)
          ELSE Traced(WizardResult(r1.disk, <<call1>>, T_OperationCancelled),
                      <<"sure:yes", "remove", "force:no">>)
     ELSE Traced(WizardResult(r1.disk, <<call1>>, r1.err), <<"sure:yes", "remove">>)

\* createBranchWizard, lines 101-192; a holds the user's answers and the
\* environment of the manager calls
CreateBranchWizardRun(a) ==
  LET selected == SelectRepository(disk, a.repo)
  IN IF selected # NoError THEN WizardResult(disk, <<>>, selected)
     ELSE IF a.type = "CANCEL" THEN WizardResult(disk, <<>>, T_OperationCancelled)
     ELSE IF a.type = "remote"
     THEN LET listed == ListRemoteBranchesRun(a.listEnv)
              call1 == Call("listRemoteBranches", <<>>, Undefined, FALSE, <<>>, listed)
              opened == OpenRemoteBranchFrom(listed.disk, a.selected, a.openEnv)
              call2 == Call("openRemoteBranch", a.selected, Undefined, FALSE, <<>>, opened)
          IN IF listed.err # NoError THEN WizardResult(listed.disk, <<call1>>, listed.err)
             ELSE IF listed.ret = <<>> THEN WizardResult(listed.disk, <<call1>>, NoError)
             ELSE IF a.selected = MenuCancel
             THEN WizardResult(listed.disk, <<call1>>, T_OperationCancelled)
             ELSE IF ~RemoteBranchesInclude(listed.ret, a.selected) THEN Invalid
             ELSE WizardResult(opened.disk, <<call1, call2>>, opened.err)
     ELSE
     LET shownDefault == Or(GetDefaultBranch(disk.config), T_main)
         chosen == SelectWorktree(disk, a.worktree)
         baseBranch == IF a.base = MenuChoose THEN a.worktree ELSE shownDefault
         created == CreateBranchRun(a.name, baseBranch, TRUE, a.createEnv)
         call == Call("createBranch", a.name, baseBranch, TRUE, <<>>, created)
     IN IF ~Truthy(a.name) THEN WizardResult(disk, <<>>, NoError)
        ELSE IF a.base = MenuCancel THEN WizardResult(disk, <<>>, T_OperationCancelled)
        ELSE IF a.base = MenuChoose /\ ~WorktreeOffered(disk, a.worktree) THEN Invalid
        ELSE IF a.base = MenuChoose /\ chosen # NoError THEN WizardResult(disk, <<>>, chosen)
        ELSE WizardResult(created.disk, <<call>>, created.err)

\* showHelpWizard, lines 261-265: prints the commands and returns true
ShowHelpWizardRun == TRUE

AllOk ==
  [fetchOk |-> TRUE, fetchPruneOk |-> TRUE, lsRemoteOk |-> TRUE, addNewOk |-> TRUE,
   addExistingOk |-> TRUE]

NoAnswers ==
  [repo |-> RepositoryName, type |-> "CANCEL", selected |-> MenuCancel, name |-> <<>>,
   base |-> MenuCancel, worktree |-> MenuCancel,
   listEnv |-> [fetchPruneOk |-> TRUE, lsRemoteOk |-> TRUE], openEnv |-> AllOk,
   createEnv |-> [fetchOk |-> TRUE, fetchBaseOk |-> TRUE]]

\* the answers the user can give in createBranchWizard, with the environments of
\* the calls they lead to
BranchAnswers ==
  {[NoAnswers EXCEPT !.repo = MenuCancel], NoAnswers}
    \cup {[NoAnswers EXCEPT !.type = "remote", !.listEnv = e] : e \in ListRemoteEnv}
    \cup {[NoAnswers EXCEPT !.type = "remote", !.selected = b, !.openEnv = e] :
            b \in BranchNames, e \in OpenRemoteEnv}
    \cup {[NoAnswers EXCEPT !.type = "new", !.name = n, !.base = b, !.createEnv = e] :
            n \in {T_fixX}, b \in {<<>>, MenuCancel}, e \in CreateBranchEnv}
    \cup {[NoAnswers EXCEPT !.type = "new", !.name = n, !.base = MenuChoose,
                            !.worktree = w, !.createEnv = e] :
            n \in {T_fixX}, w \in WorktreeAnswers, e \in CreateBranchEnv}
    \cup {[NoAnswers EXCEPT !.type = "new"]}

\* one pass of the loop of runWizardLoop (lines 282-285) for the operation key:
\* the operation ran with result r and returned shouldContinue
LoopIteration(key, r, shouldContinue, printed) ==
  /\ wizard.pc = key
  /\ wizard.iterations < MaxIterations
  /\ r.valid
  /\ disk' = r.disk
  /\ last' = IF r.calls = <<>> THEN NoCall ELSE r.calls[Len(r.calls)]
  /\ wizard' = [pc |-> IF shouldContinue THEN key ELSE "menu",
                iterations |-> IF shouldContinue THEN wizard.iterations + 1 ELSE 0,
                printed |-> printed,
                calls |-> r.calls,
                trace |-> r.trace]
  /\ UNCHANGED <<remote, defaultBranch, input, output>>

\* mainMenu, lines 292-306: the user picks an operation or leaves
MainMenu ==
  /\ wizard.pc = "menu"
  /\ \E choice \in OperationKeys \cup {"CANCEL"} :
       wizard' = [pc |-> IF choice = "CANCEL" THEN "exited" ELSE choice,
                  iterations |-> 0, printed |-> "none", calls |-> <<>>,
                  trace |-> <<>>]
  /\ last' = NoCall
  /\ UNCHANGED <<disk, remote, defaultBranch, input, output>>

CloneRepositoryWizard ==
  \E url \in WizardUrls, env \in CloneEnv :
    LET r == CloneRepositoryWizardRun(url, env)
    IN LoopIteration("clone", r, WithErrorHandling(r.error), "none")

CreateBranchWizard ==
  \E a \in BranchAnswers :
    LET r == CreateBranchWizardRun(a)
    IN LoopIteration("branch", r, WithErrorHandling(r.error), "none")

OpenBranchWizard ==
  \E repo \in {RepositoryName, MenuCancel}, worktree \in WorktreeAnswers :
    LET r == OpenBranchWizardRun(repo, worktree)
    IN LoopIteration("open", r, WithErrorHandling(r.error), "none")

ListWorktreesWizard ==
  \E repo \in {RepositoryName, MenuCancel} :
    LET r == ListWorktreesWizardRun(repo)
    IN LoopIteration("list", r, WithErrorHandling(r.error), "none")

RemoveWorktreeWizard ==
  \E repo \in {RepositoryName, MenuCancel}, worktree \in WorktreeAnswers,
     confirmed \in BOOLEAN, forceRemove \in BOOLEAN :
    LET r == RemoveWorktreeWizardRun(repo, worktree, confirmed, forceRemove)
    IN LoopIteration("remove", r, WithErrorHandling(r.error), "none")

ShowHelpWizard ==
  LoopIteration("help", WizardResult(disk, <<>>, NoError), ShowHelpWizardRun, "commands")

\* the user interrupts the wizard process (Ctrl-C)
KillWizard ==
  /\ wizard.pc \notin {"killed", "exited"}
  /\ wizard' = [WizardStart EXCEPT !.pc = "killed"]
  /\ last' = NoCall
  /\ UNCHANGED <<disk, remote, defaultBranch, input, output>>

\* the user starts the wizard again: mainMenu() of a new process
StartWizard ==
  /\ wizard.pc \in {"killed", "exited"}
  /\ wizard' = WizardStart
  /\ last' = NoCall
  /\ UNCHANGED <<disk, remote, defaultBranch, input, output>>

\* every wizard operation builds its manager anew: this.defaultBranch is 'main'
InitWizard ==
  /\ disk = EmptyDisk
  /\ remote \in Remotes
  /\ defaultBranch = ConstructorDefault(Undefined)
  /\ last = NoCall
  /\ input = Idle
  /\ output = Idle
  /\ wizard = WizardStart

NextWizard ==
  \/ MainMenu
  \/ CloneRepositoryWizard
  \/ CreateBranchWizard
  \/ OpenBranchWizard
  \/ ListWorktreesWizard
  \/ RemoveWorktreeWizard
  \/ ShowHelpWizard
  \/ KillWizard
  \/ StartWizard
  \/ \E n \in BranchNames : EditWorktree(n)

SpecWizard == InitWizard /\ [][NextWizard]_vars

(***************************************************************************)
(* Properties of the lifecycle                                             *)
(***************************************************************************)
SetHeadName == "git remote set-head origin -a"
SymbolicRefName == "git symbolic-ref refs/remotes/origin/HEAD | sed"
BranchRName == "git branch -r"
FetchBaseName == "git fetch origin <base>:refs/remotes/origin/<base>"
AddNewBranchName == "git worktree add -b"

Issued(call, name) == \E i \in 1..Len(call.cmds) : call.cmds[i].cmd = name

\* the remote symbolic-HEAD query of a clone call succeeded
HeadQuerySucceeded(call) ==
  /\ Len(call.cmds) >= 3
  /\ call.cmds[2].cmd = SetHeadName /\ call.cmds[2].ok
  /\ call.cmds[3].cmd = SymbolicRefName /\ call.cmds[3].ok
  /\ Trim(call.cmds[3].out) # <<>>

\* C1: a clone called while the workspace directory exists fails with the
\* "workspace already exists" error, runs no external command and leaves the
\* disk (bare storage, config file, worktree directories) as it was.
C1_CloneExistingWorkspace ==
  [][(last'.op = "clone" /\ disk.repositoryPath)
       => /\ Includes(last'.err, T_RepositoryDirectoryExists \o repositoryPath)
          /\ last'.cmds = <<>>
          /\ disk' = disk]_vars

C1_Witness ==
  /\ last.op = "clone"
  /\ Includes(last.err, T_RepositoryDirectoryExists)
  /\ disk.bare /\ disk.config.exists /\ DOMAIN disk.worktrees # {}

\* C2: after a successful clone whose symbolic-HEAD query succeeded with branch B,
\* the persisted config holds defaultBranch = B and the cloned url, and
\* getDefaultBranch() returns B.
C2_ConfigHoldsResolvedBranch ==
  (last.op = "clone" /\ last.err = NoError /\ HeadQuerySucceeded(last))
    => /\ Load(disk.config) = [null |-> FALSE, defaultBranch |-> remote.head,
                               repositoryUrl |-> last.url]
       /\ GetDefaultBranch(disk.config) = remote.head

C2_Witness ==
  /\ last.op = "clone" /\ last.err = NoError /\ HeadQuerySucceeded(last)
  /\ remote.head = T_develop
  /\ GetDefaultBranch(disk.config) = T_develop

\* the default branch the config file holds, Undefined when the file or the field is absent
StoredDefault ==
  LET at == {i \in 1..Len(disk.config.text.members) :
               disk.config.text.members[i][1] = K_defaultBranch}
  IN IF disk.config.exists /\ at # {}
     THEN disk.config.text.members[CHOOSE i \in at : TRUE][2]
     ELSE Undefined

ExpectedBase ==
  IF last.baseBranch # Undefined THEN last.baseBranch
  ELSE IF StoredDefault # Undefined THEN StoredDefault
  ELSE defaultBranch

\* C3: createBranch takes its base from the explicit argument, else from the
\* default branch stored in the config file, else from the manager's static
\* default: the base fetch and the worktree add both name that branch.
C3_BasePriority ==
  last.op = "createBranch"
    => \A i \in 1..Len(last.cmds) :
         /\ last.cmds[i].cmd = FetchBaseName => last.cmds[i].branch = ExpectedBase
         /\ last.cmds[i].cmd = AddNewBranchName
              => last.cmds[i].start = T_OriginSlash \o ExpectedBase

C3_Witness ==
  /\ last.op = "createBranch" /\ last.err = NoError
  /\ last.baseBranch = Undefined
  /\ StoredDefault = T_develop /\ defaultBranch = T_main
  /\ last.cmds[Len(last.cmds)].start = T_OriginSlash \o T_develop

\* C4: createBranch called while the worktree directory exists fails with the
\* "worktree already exists" error, runs no external command (no fetch even
\* with pullLatest) and leaves the workspace unchanged.
C4_CreateExistingWorktree ==
  [][(last'.op = "createBranch" /\ WorktreePathExists(disk, last'.branchName))
       => /\ Includes(last'.err,
                      T_WorktreeForBranch \o last'.branchName \o T_AlreadyExists)
          /\ last'.cmds = <<>>
          /\ disk' = disk]_vars

C4_Witness ==
  /\ last.op = "createBranch" /\ last.flag
  /\ Includes(last.err, T_WorktreeForBranch \o last.branchName \o T_AlreadyExists)
  /\ last.branchName \in DOMAIN disk.worktrees

\* C4 (amended): createBranch called while the bare storage exists and the
\* worktree directory exists fails with the "worktree already exists" error, runs
\* no external command and leaves the workspace unchanged.
C4_CreateExistingWorktreeCloned ==
  [][(last'.op = "createBranch" /\ disk.bare /\ WorktreePathExists(disk, last'.branchName))
       => /\ Includes(last'.err,
                      T_WorktreeForBranch \o last'.branchName \o T_AlreadyExists)
          /\ last'.cmds = <<>>
          /\ disk' = disk]_vars

Dirty(d, name) == name \in DOMAIN d.worktrees /\ d.worktrees[name].dirty

\* C5: removing a dirty worktree without force fails with the dirty-worktree
\* error, not the generic one, and keeps the directory; removing it with force
\* succeeds and the directory is gone.
C5_DirtyRemoval ==
  [][(last'.op = "removeWorktree" /\ Dirty(disk, last'.branchName))
       => IF last'.flag
          THEN last'.err = NoError /\ last'.branchName \notin DOMAIN disk'.worktrees
          ELSE /\ StartsWith(last'.err, T_WorktreeContainsModified)
               /\ ~StartsWith(last'.err, T_FailedToRemoveWorktree)
               /\ last'.branchName \in DOMAIN disk'.worktrees]_vars

C5_Witness ==
  /\ last.op = "removeWorktree" /\ ~last.flag
  /\ StartsWith(last.err, T_WorktreeContainsModified)
  /\ Dirty(disk, last.branchName)

\* C9: in clone the symbolic-HEAD result is used whenever that query succeeds,
\* the remote-branch list is consulted exactly when the query fails, and the
\* static default is taken only when the list fails or offers neither main nor
\* master: a list that offers one of them yields a branch it offers, main first,
\* and a failed list yields the static default.
C9_ThreeTierFallback ==
  [][(last'.op = "clone" /\ Issued(last', SetHeadName))
       => /\ HeadQuerySucceeded(last') <=> ~Issued(last', BranchRName)
          /\ HeadQuerySucceeded(last') => defaultBranch' = remote.head
          /\ ~HeadQuerySucceeded(last')
               => LET listing == last'.cmds[3]
                      offered == disk'.remoteTracking \cap {T_main, T_master}
                  IN /\ listing.cmd = BranchRName
                     /\ (listing.ok /\ T_main \in offered) => defaultBranch' = T_main
                     /\ (listing.ok /\ offered # {}) => defaultBranch' \in offered
                     /\ ~listing.ok => defaultBranch' = defaultBranch]_vars

C9_Witness ==
  /\ last.op = "clone" /\ Issued(last, BranchRName)
  /\ last.cmds[3].ok
  /\ T_master \in disk.remoteTracking
  /\ defaultBranch = T_master

\* C10: a clone that fails after creating the workspace directory raises one
\* "Failed to clone repository" error and leaves the directory in place; no
\* manager call removes it, so every later clone fails with "workspace already
\* exists" until the directory is deleted from outside.
C10_NoRollback ==
  [][last'.op # "none"
       => /\ disk.repositoryPath => disk'.repositoryPath
          /\ (last'.op = "clone" /\ last'.err # NoError)
               => /\ disk'.repositoryPath
                  /\ StartsWith(last'.err, T_FailedToClone)
                  /\ ~Includes(Substring(last'.err, 1), T_FailedToClone)
          /\ (last'.op = "clone" /\ disk.repositoryPath)
               => Includes(last'.err, T_RepositoryDirectoryExists)]_vars

C10_Witness ==
  /\ last.op = "clone" /\ last.err # NoError
  /\ last.cmds # <<>>
  /\ disk.repositoryPath /\ disk.bare /\ ~disk.config.exists

FetchOriginName == "git fetch origin"
AddExistingName == "git worktree add"
RemoveName == "git worktree remove"
LsRemoteName == "git ls-remote --heads origin"

\* the operations that need a cloned repository
RepositoryOps ==
  {"createBranch", "listWorktrees", "removeWorktree", "listRemoteBranches",
   "openRemoteBranch"}

\* C11: createBranch, listWorktrees, removeWorktree, listRemoteBranches and
\* openRemoteBranch called while the bare storage is absent fail with the
\* "repository not found" error, run no external command and leave the disk as
\* it was; createBranch does so even when the directory of the branch exists.
C11_RepositoryNotFound ==
  [][(last'.op \in RepositoryOps /\ ~disk.bare)
       => /\ Includes(last'.err, T_RepositoryNotFound)
          /\ ~Includes(last'.err, T_AlreadyExists)
          /\ last'.cmds = <<>>
          /\ disk' = disk]_vars

C11_Witness ==
  /\ last.op = "createBranch"
  /\ Includes(last.err, T_RepositoryNotFound)
  /\ ~disk.bare
  /\ WorktreePathExists(disk, last.branchName)

\* C12: in a createBranch run every worktree add comes right after a successful
\* fetch of the resolved base into refs/remotes/origin/<base> and starts the new
\* branch at origin/<base>, not at <base>; a run that created the worktree
\* issued that add; a failed base fetch ends the run without a worktree add and
\* with the "Failed to create branch" error.
C12_RootedAtFetchedBase ==
  last.op = "createBranch"
    => /\ \A i \in 1..Len(last.cmds) :
            last.cmds[i].cmd = AddNewBranchName
              => /\ i > 1
                 /\ last.cmds[i - 1].cmd = FetchBaseName
                 /\ last.cmds[i - 1].ok
                 /\ last.cmds[i - 1].branch = ExpectedBase
                 /\ last.cmds[i].start = T_OriginSlash \o ExpectedBase
                 /\ last.cmds[i].start # ExpectedBase
                 /\ ExpectedBase \in disk.remoteTracking
       /\ last.err = NoError
            => /\ last.cmds # <<>>
               /\ last.cmds[Len(last.cmds)].cmd = AddNewBranchName
               /\ last.cmds[Len(last.cmds)].ok
               /\ last.branchName \in DOMAIN disk.worktrees
       /\ \A i \in 1..Len(last.cmds) :
            (last.cmds[i].cmd = FetchBaseName /\ ~last.cmds[i].ok)
              => /\ i = Len(last.cmds)
                 /\ ~Issued(last, AddNewBranchName)
                 /\ StartsWith(last.err, T_FailedToCreateBranch)

C12_Witness ==
  /\ last.op = "createBranch" /\ last.err = NoError
  /\ last.cmds[Len(last.cmds)].cmd = AddNewBranchName
  /\ ExpectedBase \in disk.localBranches
  /\ last.branchName \in DOMAIN disk.worktrees

\* C13: a createBranch run with pullLatest whose `git fetch origin` failed goes
\* on exactly as a run without pullLatest: the same later commands with the same
\* results, the same error or success, the same disk.
C13_PullLatestFailureNonFatal ==
  [][(/\ last'.op = "createBranch" /\ last'.flag
      /\ last'.cmds # <<>>
      /\ last'.cmds[1].cmd = FetchOriginName /\ ~last'.cmds[1].ok)
       => \E env \in CreateBranchEnv :
            LET r == CreateBranchRun(last'.branchName, last'.baseBranch, FALSE, env)
            IN /\ Tail(last'.cmds) = r.cmds
               /\ r.cmds # <<>>
               /\ last'.err = r.err
               /\ disk' = r.disk]_vars

C13_Witness ==
  /\ last.op = "createBranch" /\ last.flag
  /\ last.cmds # <<>>
  /\ last.cmds[1].cmd = FetchOriginName /\ ~last.cmds[1].ok
  /\ last.err = NoError
  /\ last.branchName \in DOMAIN disk.worktrees

\* C14: openRemoteBranch(b) called while a worktree directory named b exists
\* returns success, runs no external command and changes nothing.
C14_OpenExistingWorktree ==
  [][(last'.op = "openRemoteBranch" /\ last'.branchName \in DOMAIN disk.worktrees)
       => /\ last'.err = NoError
          /\ last'.cmds = <<>>
          /\ disk' = disk
          /\ defaultBranch' = defaultBranch]_vars

C14_Witness ==
  /\ last.op = "openRemoteBranch" /\ last.err = NoError
  /\ last.cmds = <<>>
  /\ last.branchName \in DOMAIN disk.worktrees
  /\ disk.worktrees[last.branchName].dirty

\* the remote answered the branch listing of the call
RemoteReported(call) ==
  \E i \in 1..Len(call.cmds) : call.cmds[i].cmd = LsRemoteName /\ call.cmds[i].ok

\* C15: openRemoteBranch(b) with no worktree directory for b and b not a branch
\* of the remote issues no worktree add and creates no directory for b; when
\* the remote reported its branches the call fails with the "remote branch not
\* found" error.
C15_RemoteBranchNotFound ==
  [][(/\ last'.op = "openRemoteBranch"
      /\ ~WorktreePathExists(disk, last'.branchName)
      /\ last'.branchName \notin remote.branches)
       => /\ ~Issued(last', AddNewBranchName)
          /\ ~Issued(last', AddExistingName)
          /\ ~WorktreePathExists(disk', last'.branchName)
          /\ last'.err # NoError
          /\ RemoteReported(last')
               => last'.err = T_FailedToOpenRemoteBranch \o T_Error \o T_RemoteBranch
                                \o last'.branchName \o T_NotFoundCheckName]_vars

C15_Witness ==
  /\ last.op = "openRemoteBranch"
  /\ RemoteReported(last)
  /\ Includes(last.err, T_RemoteBranch \o last.branchName \o T_NotFoundCheckName)
  /\ last.branchName \in disk.localBranches
  /\ last.branchName \notin DOMAIN disk.worktrees

\* C16: in openRemoteBranch the worktree add without -b follows a failed
\* `worktree add -b` exactly when that failure was "a branch named b already
\* exists"; a first attempt that failed for another reason is not retried.
C16_RetryOnlyWhenBranchExists ==
  last.op = "openRemoteBranch"
    => \A i \in 1..Len(last.cmds) :
         (last.cmds[i].cmd = AddNewBranchName /\ ~last.cmds[i].ok)
           => (Includes(last.cmds[i].stderr, T_BranchExists)
                 <=> (i < Len(last.cmds) /\ last.cmds[i + 1].cmd = AddExistingName))

\* C17: createBranch, listWorktrees, removeWorktree, listRemoteBranches and
\* openRemoteBranch, successful or failing, leave the config file as it was:
\* its existence and its content.
C17_ConfigWrittenOnlyByClone ==
  [][last'.op \in RepositoryOps => disk'.config = disk.config]_vars

C17_Witness ==
  /\ last.op = "createBranch" /\ last.err = NoError
  /\ last.baseBranch = T_main
  /\ disk.config.exists
  /\ StoredDefault = T_develop

\* C18: one removeWorktree call issues exactly one worktree-remove command,
\* forced exactly when the caller passed force, and a dirty-worktree failure
\* without force is returned with the worktree still there.
C18_ExactlyOneRemoveCommand ==
  last.op = "removeWorktree"
    => /\ Len(last.cmds) = 1
       /\ last.cmds[1].cmd = RemoveName
       /\ last.cmds[1].force = last.flag
       /\ StartsWith(last.err, T_WorktreeContainsModified)
            => ~last.flag /\ ~last.cmds[1].ok /\ Dirty(disk, last.branchName)

\* C18 (amended): one removeWorktree call issues one worktree-remove command
\* when the bare storage exists and none when it is absent; the command is
\* forced exactly when the caller passed force, and a dirty-worktree failure
\* without force is returned with the worktree still there.
C18_NoForceEscalation ==
  last.op = "removeWorktree"
    => /\ Len(last.cmds) = (IF disk.bare THEN 1 ELSE 0)
       /\ \A i \in 1..Len(last.cmds) :
            last.cmds[i].cmd = RemoveName /\ last.cmds[i].force = last.flag
       /\ StartsWith(last.err, T_WorktreeContainsModified)
            => /\ ~last.flag
               /\ Len(last.cmds) = 1
               /\ ~last.cmds[1].ok
               /\ Dirty(disk, last.branchName)

C18_Witness ==
  /\ last.op = "removeWorktree" /\ ~last.flag
  /\ Len(last.cmds) = 1
  /\ ~last.cmds[1].force /\ ~last.cmds[1].ok
  /\ StartsWith(last.err, T_WorktreeContainsModified)
  /\ Dirty(disk, last.branchName)

(***************************************************************************)
(* Properties of the parsers                                               *)
(***************************************************************************)
Last(s) == s[Len(s)]

Stem(segment) ==
  IF EndsWith(segment, T_DotGit) THEN SubSeq(segment, 1, Len(segment) - Len(T_DotGit))
  ELSE segment

\* C7: parseRepoUrl yields the final path segment of the URL without a trailing
\* ".git", and rejects every URL that has no path segment with "Invalid
\* repository URL".
C7_ParseRepoUrl ==
  output.done
    => /\ (\A i \in 1..Len(input.segments) : input.segments[i] = <<>>)
            => ~output.ok /\ output.error = T_InvalidRepositoryUrl
       /\ (input.segments # <<>> /\ Stem(Last(input.segments)) # <<>>)
            => output.ok /\ output.repositoryName = Stem(Last(input.segments))

\* C6: listWorktrees returns one entry per record of the porcelain output, in
\* the output's order, "<path> (<branch>)" for a record with a branch line and
\* "<path> (detached)" for a record without one.
C6_OneEntryPerRecord ==
  output.done
    => output.worktrees =
         [i \in 1..Len(input.records) |->
            input.records[i].path \o <<" ", "(">>
              \o (IF input.records[i].kind = "attached" THEN input.records[i].branch
                  ELSE T_detached)
              \o <<")">>]

C6_Witness ==
  /\ output.done
  /\ Len(input.records) = 3
  /\ Cardinality({i \in 1..3 : input.records[i].kind = "attached"}) = 2
  /\ Cardinality({i \in 1..3 : input.records[i].kind = "detached"}) = 1
  /\ Len(output.worktrees) = 3
  /\ \E i \in 1..3 : /\ input.records[i].kind = "detached"
                     /\ EndsWith(output.worktrees[i], <<"(">> \o T_detached \o <<")">>)

\* C8: listRemoteBranches returns every branch of the remote's refs/heads list
\* once, in lexicographic order, whatever the order and multiplicity of the
\* lines; lines without a refs/heads path contribute nothing.
C8_SortedUnique ==
  output.done
    => /\ \A i \in 1..(Len(output.branches) - 1) :
            StringLess(output.branches[i], output.branches[i + 1])
       /\ {output.branches[i] : i \in 1..Len(output.branches)}
            = {input.lines[i].name : i \in {k \in 1..Len(input.lines) : input.lines[k].head}}

C8_Witness ==
  /\ output.done
  /\ Len(input.lines) = 3
  /\ input.lines[1].head /\ input.lines[1].name = N_b
  /\ input.lines[2] = input.lines[1]
  /\ input.lines[3].head /\ input.lines[3].name = N_a
  /\ output.branches = <<N_a, N_b>>
\* the value the file holds for defaultBranch, Undefined when it has none
StoredField(file, key) ==
  LET at == {i \in 1..Len(file.text.members) : file.text.members[i][1] = key}
  IN IF at = {} THEN Undefined
     ELSE file.text.members[CHOOSE i \in at : \A j \in at : j <= i][2]

\* C19: getDefaultBranch() returns a string or null and never anything else; it
\* returns the stored defaultBranch when the file exists, parses and holds a
\* non-empty value for it, and null when the file is absent, unparsable or the
\* field is unset; load() after save(c) returns a record equal to c.
C19_GetDefaultBranch ==
  output.done
    => LET readable == input.file.exists /\ input.file.text.wellFormed
           stored == StoredField(input.file, K_defaultBranch)
       IN /\ output.result = Null \/ output.result \in MemberValues \ {<<>>}
          /\ (readable /\ Truthy(stored)) => output.result = stored
          /\ (~readable \/ ~Truthy(stored)) => output.result = Null
          /\ input.saved
               => /\ ~output.loaded.null
                  /\ output.loaded.defaultBranch = input.config.defaultBranch
                  /\ output.loaded.repositoryUrl = input.config.repositoryUrl
                  /\ output.result = input.config.defaultBranch

C19_Witness ==
  /\ output.done /\ input.saved
  /\ output.result = T_develop
  /\ output.loaded.repositoryUrl = Url2

\* the operation key ran once in this step: one pass of the loop of runWizardLoop
Ran(key) == wizard.pc = key /\ wizard'.pc \in {key, "menu"} /\ wizard' # wizard

\* C20: every pass of the help operation prints the CLI commands and then
\* control is back at the main menu.
C20_HelpContinuesToMenu ==
  [][Ran("help") => (wizard'.printed = "commands" /\ wizard'.pc = "menu")]_vars

\* once entered, the help and clone operations are left only by killing the
\* process: no answer of the user brings control back to the main menu
WizardNeverLeavesHelpOrClone ==
  [][wizard.pc \in {"help", "clone"} => wizard'.pc \in {wizard.pc, "killed"}]_vars

\* with no repository cloned, the branch, open, list and remove operations are
\* left only by killing the process
WizardNeverLeavesWithoutRepository ==
  [][(wizard.pc \in {"branch", "open", "list", "remove"} /\ ~disk.repositoryPath)
       => wizard'.pc \in {wizard.pc, "killed"}]_vars

\* the indices of the forced removals among the manager calls of the last run
ForcedRemovals ==
  {i \in 1..Len(wizard.calls) :
     wizard.calls[i].op = "removeWorktree" /\ wizard.calls[i].flag}

\* the full escalation of the remove flow, in order
EscalatedTrace == <<"sure:yes", "remove", "force:yes", "remove --force">>

\* C21: in the wizard, removeWorktree(branch, true) is called only as the
\* second call of a remove flow in which the user answered yes to 'Are you sure?',
\* removeWorktree(branch, false) then failed with the dirty-worktree error, and
\* the user then answered yes to the force prompt; a flow in which a prompt was
\* declined, or the non-forced removal failed in another way, makes no forced call
C21_ForcedRemovalOnlyAfterEscalation ==
  /\ \A i \in ForcedRemovals :
       /\ i = 2
       /\ Len(wizard.calls) = 2
       /\ wizard.calls[1].op = "removeWorktree"
       /\ ~wizard.calls[1].flag
       /\ wizard.calls[1].branchName = wizard.calls[2].branchName
       /\ StartsWith(wizard.calls[1].err, T_WorktreeContainsModified)
       /\ wizard.trace = EscalatedTrace
  /\ (\E i \in 1..Len(wizard.trace) : wizard.trace[i] \in {"sure:no", "force:no"})
       => ForcedRemovals = {}
  /\ (/\ wizard.calls # <<>>
      /\ wizard.calls[1].op = "removeWorktree"
      /\ wizard.calls[1].err # NoError
      /\ ~StartsWith(wizard.calls[1].err, T_WorktreeContainsModified))
       => /\ ForcedRemovals = {}
          /\ Len(wizard.calls) = 1
          /\ wizard.trace = <<"sure:yes", "remove">>

\* a remove flow escalated to a forced removal, which removed the dirty worktree
C21_Witness ==
  /\ wizard.trace = EscalatedTrace
  /\ ForcedRemovals = {2}
  /\ wizard.calls[2].err = NoError
  /\ wizard.calls[2].branchName \notin DOMAIN disk.worktrees

\* a remove flow whose non-forced removal failed for a directory that is no
\* worktree
C21_OtherFailureWitness ==
  /\ wizard.trace = <<"sure:yes", "remove">>
  /\ wizard.calls[1].err # NoError
  /\ ~StartsWith(wizard.calls[1].err, T_WorktreeContainsModified)

\* a remove flow in which the force prompt was declined
C21_DeclinedWitness == wizard.trace = <<"sure:yes", "remove", "force:no">>

\* the clone reached the remote-branch-list tier and the listing succeeded
ListTierReached(call) ==
  /\ call.op = "clone"
  /\ Issued(call, BranchRName)
  /\ call.cmds[3].ok

\* C22: a clone that resolves the default branch in the remote-branch-list tier
\* yields main only if the remote has a branch named main, master only if the
\* remote has no branch named main and has one named master, and in every case a
\* branch of the remote or else the static default.
C22_ListTierPicksExistingBranch ==
  [][ListTierReached(last')
       => /\ (defaultBranch' = T_main /\ defaultBranch # T_main)
               => T_main \in remote.branches
          /\ (defaultBranch' = T_master /\ defaultBranch # T_master)
               => (T_main \notin remote.branches /\ T_master \in remote.branches)
          /\ defaultBranch' \in remote.branches \cup {defaultBranch}]_vars

\* the list tier resolved main for a remote whose only branch of that kind is
\* mainline, and the checkout of main then failed
C22_NamedAlikeResolved ==
  /\ ListTierReached(last)
  /\ T_main \notin remote.branches
  /\ T_mainline \in remote.branches
  /\ defaultBranch = T_main
  /\ last.err # NoError
  /\ ~disk.config.exists

=============================================================================
